---- MODULE Spec2Model ----
(***************************************************************************)
(* Model of src/main.py: the APIKeyManager credential rotators, the        *)
(* module-level clients, the AgentRunnerThread worker and the AgentApp     *)
(* window that starts workers and shows what their signals carry.          *)
(*                                                                         *)
(* Worker threads interleave between statements.  The read-modify-write    *)
(* of line 44 (self.index = (self.index + 1) % len(self.keys)) is two      *)
(* steps, the read and the store, because nothing in the code makes it     *)
(* atomic.  Signals emitted by a worker are queued to the GUI thread and   *)
(* their slots run later, in emission order (Qt queued connections).  The  *)
(* slot of log_ready, update_logs, only appends to the thinking_logs       *)
(* widget, whose content is not part of the model: the log lines are kept  *)
(* where they are emitted.  The signals of one thread object are recorded  *)
(* in two sequences: those the statements of its own run() emit, and, of   *)
(* the lines a rotator emits on it through log_callback, those that come   *)
(* after the object has emitted result_ready.                              *)
(***************************************************************************)
EXTENDS Integers, Sequences, FiniteSets, TLC

\* ---------------------------------------------------------------- bounds
\* Worker threads ever started by handle_run.
MaxRuns == 2
\* Credentials per environment list (GEMINI_API_KEY_i, TAVILY_API_KEY_i).
MaxKeys == 2
\* Calls made on the rotator under test in SpecRot.
MaxCalls == 5
\* Entries of the environment list of the rotator under test in SpecRot.
MaxRotKeys == 3
\* Requests the agents' models make in one Runner.run call in SpecPipe.
MaxTurns == 5

Runs == 1..MaxRuns
Managers == {"gemini", "tavily"}
\* os.getenv of an unset name, and the empty string: both are dropped by line 31
None == <<>>
\* the bound method self.log of no thread (log_callback=None)
NoCallback == 0

\* --------------------------------------------------------------- strings
Whitespace == {" ", "\t"}
\* the texts tried in the input box: empty, blank, and a question with and
\* without blanks around it
Texts == {<<>>, <<" ">>, <<" ", "\t">>, <<"q">>, <<" ", "q", "\t">>}

RECURSIVE LStrip(_)
LStrip(s) == IF s # <<>> /\ Head(s) \in Whitespace THEN LStrip(Tail(s)) ELSE s

RECURSIVE RStrip(_)
RStrip(s) ==
    IF s # <<>> /\ s[Len(s)] \in Whitespace
    THEN RStrip(SubSeq(s, 1, Len(s) - 1))
    ELSE s

\* the text as typed, not stripped
NoStrip(s) == s

\* str.strip() of line 262
Strip(s) == RStrip(LStrip(s))

\* f"{n}" for the small numbers the log lines carry
NumStr(n) ==
    CASE n = 0 -> "0" [] n = 1 -> "1" [] n = 2 -> "2" [] n = 3 -> "3"
      [] n = 4 -> "4" [] n = 5 -> "5" [] n = 6 -> "6" [] n = 7 -> "7"
      [] n = 8 -> "8" [] n = 9 -> "9" [] OTHER -> "10"

\* ---------------------------------------------------------- message texts
\* a rotation notice that names the index as stored, from 0
SwitchingMsgZeroBased(i) == <<"Switching to API Key No. ", NumStr(i)>>

UsingMsg(i) == <<"Using API Key No. ", NumStr(i + 1)>>
SwitchingMsg(i) == <<"Switching to API Key No. ", NumStr(i + 1)>>
PlanningMsg == <<"Planning the steps...">>
SearchingMsg == <<"Searching information...">>
ExtractingMsg == <<"Extracting context...">>
SummarizingMsg == <<"Summarizing findings...">>
RotatingMsg == <<"Error occurred, rotating API key...">>
ErrorText(e) == <<"Error: ", e, "traceback">>
InvalidQuestionText == <<"Please enter a valid question.">>
RunningText == <<"Running agents... Please wait.">>

NoKeysError == "No API keys available."
ZeroDivisionError == "integer division or modulo by zero"
\* what the external constructors and Runner.run may raise
ConstructionError == "ClientConstructionError"
PipelineErrors == {"ModelCallError", "SearchError", "ExtractionError"}
\* final_output texts Runner.run may return
Outputs == {<<"- Method A ...">>, <<"- Method B ...">>}

\* ------------------------------------------------------ APIKeyManager
\* the value of GEMINI_API_KEY_i / TAVILY_API_KEY_i when it is set
EnvKey(m, i) == <<m, NumStr(i)>>
\* self.keys = [k for k in keys if k]
RECURSIVE FilterKeys(_)
FilterKeys(raw) ==
    IF raw = <<>> THEN <<>>
    ELSE IF Head(raw) = None THEN FilterKeys(Tail(raw))
    ELSE <<Head(raw)>> \o FilterKeys(Tail(raw))

\* an increment that forgets the modulo
NextIndexNoMod(i, n) == i + 1

\* a rotation that stops at the last credential instead of wrapping
NextIndexNoWrap(i, n) == IF i + 1 < n THEN i + 1 ELSE i

\* (self.index + 1) % len(self.keys); n = 0 raises ZeroDivisionError
NextIndex(i, n) == (i + 1) % n

\* ------------------------------------------------------------- state
VARIABLES
    keys,            \* APIKeyManager.keys, per manager
    index,           \* APIKeyManager.index, per manager
    log_callback,    \* APIKeyManager.log_callback: NoCallback or the run whose log it is
    external_client, \* module global of line 66: the credential it is bound to
    tavily_client,   \* module global of line 66: the credential it is bound to
    pc,              \* per run: the statement its worker executes next
    query,           \* AgentRunnerThread.query
    gemini_key,      \* local of get_clients (line 60), per run
    tavily_key,      \* local of get_clients (line 61), per run
    loaded,          \* per run: self.index as read by line 44, until the store
    result,          \* local of run (line 148): final_output
    exc,             \* str(e) of the exception caught at line 150
    emitted,         \* per run: the signals the statements of its run() emitted, in order
    late_logs,       \* per run: the log lines a rotator's log_callback emitted on it
                     \* after it had emitted result_ready
    used,            \* per run: the handles of each Runner.run call it made
    rotate_calls,    \* per run and manager: rotate_key calls made by the run
    thread,          \* AgentApp.thread: the latest run, 0 before the first
    output_area,     \* AgentApp.output_area text
    gui_queue,       \* result_ready signals queued to the GUI thread, not yet handled
    shown,           \* the run whose result output_area shows, 0 if none
    rot,             \* SpecRot: the APIKeyManager under test
    rot_sink,        \* SpecRot: what its log sink received
    rot_calls,       \* SpecRot: the calls made on it, with their outcomes
    active,          \* SpecPipe: the agent that holds the conversation
    trace,           \* SpecPipe: what the agents' models have asked for, in order
    pipe_state       \* SpecPipe: "idle", "running", "final" or "raised"

mgr_vars == <<keys, index, log_callback>>
client_vars == <<external_client, tavily_client>>
local_vars == <<query, gemini_key, tavily_key, loaded, result, exc>>
hist_vars == <<used, rotate_calls>>
gui_vars == <<thread, output_area, shown>>
rot_vars == <<rot, rot_sink, rot_calls>>
pipe_vars == <<active, trace, pipe_state>>
vars == <<mgr_vars, client_vars, pc, local_vars, emitted, late_logs, hist_vars,
          gui_vars, gui_queue, rot_vars, pipe_vars>>

\* ------------------------------------------------- APIKeyManager methods
\* APIKeyManager.__init__
NewManager(raw, cb) == [keys |-> FilterKeys(raw), index |-> 0, log_callback |-> cb]

\* a get_key that also moves on to the next credential
get_key_advancing(m) ==
    IF m.keys = <<>>
    THEN [raised |-> NoKeysError, ret |-> None, log |-> <<>>, index |-> m.index]
    ELSE [raised |-> "", ret |-> m.keys[m.index + 1],
          log |-> IF m.log_callback # NoCallback THEN <<UsingMsg(m.index)>> ELSE <<>>,
          index |-> NextIndex(m.index, Len(m.keys))]

\* APIKeyManager.get_key on manager object m: what it raises, returns and logs,
\* and self.index when it returns
get_key(m) ==
    IF m.keys = <<>>
    THEN [raised |-> NoKeysError, ret |-> None, log |-> <<>>, index |-> m.index]
    ELSE [raised |-> "", ret |-> m.keys[m.index + 1],
          log |-> IF m.log_callback # NoCallback THEN <<UsingMsg(m.index)>> ELSE <<>>,
          index |-> m.index]

\* APIKeyManager.rotate_key on manager object m, run without interruption
rotate_key(m) ==
    IF Len(m.keys) = 0
    THEN [raised |-> ZeroDivisionError, ret |-> None, log |-> <<>>, index |-> m.index]
    ELSE LET i == NextIndex(m.index, Len(m.keys)) IN
         [raised |-> "", ret |-> m.keys[i + 1],
          log |-> IF m.log_callback # NoCallback THEN <<SwitchingMsg(i)>> ELSE <<>>,
          index |-> i]

\* the manager object named m, as the shared state holds it
Mgr(m) == [keys |-> keys[m], index |-> index[m], log_callback |-> log_callback[m]]

\* ------------------------------------------------------------ signals
\* pyqtSignal.emit from a worker: recorded on the emitting thread object and
\* queued to the GUI thread, where the connected slot runs later
Event(r, sig, text) == [run |-> r, sig |-> sig, text |-> text]

\* a statement of run r emits sig with text on its own thread object
Emit(r, sig, text) ==
    /\ emitted' = [emitted EXCEPT ![r] = Append(@, Event(r, sig, text))]
    /\ gui_queue' = IF sig = "result_ready"
                    THEN Append(gui_queue, Event(r, sig, text))
                    ELSE gui_queue

\* whether thread object r has emitted result_ready
HasResult(r) == \E i \in 1..Len(emitted[r]) : emitted[r][i].sig = "result_ready"

\* self.log_callback(msg) for each msg of msgs (none when the callback is None):
\* the thread object cb emits log_ready
LogVia(cb, msgs) ==
    IF cb = NoCallback \/ msgs = <<>>
    THEN UNCHANGED late_logs
    ELSE late_logs' = [late_logs EXCEPT ![cb] = IF HasResult(cb) THEN @ \o msgs ELSE @]

\* ------------------------------------------------- AgentRunnerThread.run
\* An exception raised inside the try block: control goes to line 150.
\* One raised inside the handler (lines 152-156) escapes run(): the worker ends
\* at pc "escaped" (PyQt5 may then end the whole process, which is the case of
\* no further step being taken).
Raise(r, e) ==
    /\ pc' = [pc EXCEPT ![r] = "L152"]
    /\ exc' = [exc EXCEPT ![r] = e]

\* line 132 (after lines 128-129, which touch only the new event loop)
SetGeminiCallback(r) ==
    /\ pc[r] = "L132"
    /\ log_callback' = [log_callback EXCEPT !["gemini"] = r]
    /\ pc' = [pc EXCEPT ![r] = "L133"]
    /\ UNCHANGED <<keys, index, client_vars, local_vars, emitted, late_logs, hist_vars,
                   gui_vars, gui_queue, rot_vars,
                   pipe_vars>>

\* line 133
SetTavilyCallback(r) ==
    /\ pc[r] = "L133"
    /\ log_callback' = [log_callback EXCEPT !["tavily"] = r]
    /\ pc' = [pc EXCEPT ![r] = "L134"]
    /\ UNCHANGED <<keys, index, client_vars, local_vars, emitted, late_logs, hist_vars,
                   gui_vars, gui_queue, rot_vars,
                   pipe_vars>>

\* get_clients line 60, called from line 134 (in the try) or line 155 (in the handler)
GetClientsGemini(r, at, next, inTry) ==
    /\ pc[r] = at
    /\ LET g == get_key(Mgr("gemini")) IN
       IF g.raised # ""
       THEN /\ IF inTry THEN Raise(r, g.raised)
                        ELSE pc' = [pc EXCEPT ![r] = "escaped"] /\ UNCHANGED exc
            /\ UNCHANGED <<gemini_key, late_logs>>
       ELSE /\ gemini_key' = [gemini_key EXCEPT ![r] = g.ret]
            /\ LogVia(log_callback["gemini"], g.log)
            /\ pc' = [pc EXCEPT ![r] = next]
            /\ UNCHANGED exc
    /\ index' = [index EXCEPT !["gemini"] = get_key(Mgr("gemini")).index]
    /\ UNCHANGED <<keys, log_callback, client_vars, query, tavily_key, loaded, result,
                   emitted, hist_vars, gui_vars, gui_queue, rot_vars,
                   pipe_vars>>

\* get_clients line 61
GetClientsTavily(r, at, next, inTry) ==
    /\ pc[r] = at
    /\ LET g == get_key(Mgr("tavily")) IN
       IF g.raised # ""
       THEN /\ IF inTry THEN Raise(r, g.raised)
                        ELSE pc' = [pc EXCEPT ![r] = "escaped"] /\ UNCHANGED exc
            /\ UNCHANGED <<tavily_key, late_logs>>
       ELSE /\ tavily_key' = [tavily_key EXCEPT ![r] = g.ret]
            /\ LogVia(log_callback["tavily"], g.log)
            /\ pc' = [pc EXCEPT ![r] = next]
            /\ UNCHANGED exc
    /\ index' = [index EXCEPT !["tavily"] = get_key(Mgr("tavily")).index]
    /\ UNCHANGED <<keys, log_callback, client_vars, query, gemini_key, loaded, result,
                   emitted, hist_vars, gui_vars, gui_queue, rot_vars,
                   pipe_vars>>

\* get_clients lines 62-64: the two constructors return, or one of them raises;
\* the pair returned is dropped by the callers at lines 134 and 155
GetClientsConstruct(r, at, next, inTry) ==
    /\ pc[r] = at
    /\ \E built \in BOOLEAN :
          IF built
          THEN pc' = [pc EXCEPT ![r] = next] /\ UNCHANGED exc
          ELSE IF inTry THEN Raise(r, ConstructionError)
                        ELSE pc' = [pc EXCEPT ![r] = "escaped"] /\ UNCHANGED exc
    /\ gemini_key' = [gemini_key EXCEPT ![r] = None]
    /\ tavily_key' = [tavily_key EXCEPT ![r] = None]
    /\ UNCHANGED <<mgr_vars, client_vars, query, loaded, result,
                   emitted, late_logs, hist_vars, gui_vars, gui_queue, rot_vars,
                   pipe_vars>>

\* line 134
TryGetClients(r) ==
    \/ GetClientsGemini(r, "L134", "L134t", TRUE)
    \/ GetClientsTavily(r, "L134t", "L134c", TRUE)
    \/ GetClientsConstruct(r, "L134c", "L136", TRUE)

\* self.log(msg) at line at
LogStep(r, at, msg, next) ==
    /\ pc[r] = at
    /\ Emit(r, "log_ready", msg)
    /\ pc' = [pc EXCEPT ![r] = next]
    /\ UNCHANGED <<mgr_vars, client_vars, local_vars, late_logs, hist_vars, gui_vars,
                   rot_vars,
                   pipe_vars>>

\* a run that falls into the rotations of the handler after its last progress line
ProgressNextIntoRotations(at) ==
    CASE at = "L136" -> "L139" [] at = "L139" -> "L142"
      [] at = "L142" -> "L145" [] at = "L145" -> "L153"

\* the order with the searching and extracting logs exchanged
ProgressNextSwapped(at) ==
    CASE at = "L136" -> "L142" [] at = "L142" -> "L139"
      [] at = "L139" -> "L145" [] at = "L145" -> "L148"

\* the statement after line at, in the order lines 136-145 give
ProgressNext(at) ==
    CASE at = "L136" -> "L139" [] at = "L139" -> "L142"
      [] at = "L142" -> "L145" [] at = "L145" -> "L148"

\* the text logged at line at
ProgressMsg(at) ==
    CASE at = "L136" -> PlanningMsg [] at = "L139" -> SearchingMsg
      [] at = "L142" -> ExtractingMsg [] at = "L145" -> SummarizingMsg

\* lines 136-146: each log, followed by a sleep of the run's own event loop
Progress(r) ==
    \E at \in {"L136", "L139", "L142", "L145"} :
        LogStep(r, at, ProgressMsg(at), ProgressNext(at))

\* the handles Runner.run(agent, ...) works with: the models of lines 69-70 hold
\* external_client, the tools of lines 74-79 read the global tavily_client
PipelineHandles == [model |-> external_client, search |-> tavily_client]

\* line 148: the pipeline returns a final output or raises
RunPipeline(r) ==
    /\ pc[r] = "L148"
    /\ used' = [used EXCEPT ![r] = Append(@, PipelineHandles)]
    /\ \/ \E out \in Outputs :
            /\ result' = [result EXCEPT ![r] = out]
            /\ pc' = [pc EXCEPT ![r] = "L149"]
            /\ UNCHANGED exc
       \/ \E e \in PipelineErrors :
            /\ Raise(r, e)
            /\ UNCHANGED result
    /\ UNCHANGED <<mgr_vars, client_vars, query, gemini_key, tavily_key, loaded,
                   emitted, late_logs, rotate_calls, gui_vars, gui_queue, rot_vars,
                   pipe_vars>>

\* line 149
EmitResult(r) ==
    /\ pc[r] = "L149"
    /\ Emit(r, "result_ready", result[r])
    /\ pc' = [pc EXCEPT ![r] = "done"]
    /\ UNCHANGED <<mgr_vars, client_vars, local_vars, late_logs, hist_vars, gui_vars,
                   rot_vars,
                   pipe_vars>>

\* line 152
\* a handler that reports the failure right after announcing the rotation
LogRotatingThenReport(r) == LogStep(r, "L152", RotatingMsg, "L156")

LogRotating(r) == LogStep(r, "L152", RotatingMsg, "L153")

\* line 44, first half: self.index is read (and len(self.keys) taken)
RotateLoad(r, m, at, next) ==
    /\ pc[r] = at
    /\ rotate_calls' = [rotate_calls EXCEPT ![r][m] = @ + 1]
    /\ IF Len(keys[m]) = 0
       THEN pc' = [pc EXCEPT ![r] = "escaped"] /\ UNCHANGED loaded
       ELSE /\ loaded' = [loaded EXCEPT ![r] = index[m]]
            /\ pc' = [pc EXCEPT ![r] = next]
    /\ UNCHANGED <<mgr_vars, client_vars, query, gemini_key, tavily_key, result, exc,
                   emitted, late_logs, used, gui_vars, gui_queue, rot_vars,
                   pipe_vars>>

\* line 44, second half: the new value is stored into self.index
RotateStore(r, m, at, next) ==
    /\ pc[r] = at
    /\ index' = [index EXCEPT ![m] = NextIndex(loaded[r], Len(keys[m]))]
    /\ loaded' = [loaded EXCEPT ![r] = 0]
    /\ pc' = [pc EXCEPT ![r] = next]
    /\ UNCHANGED <<keys, log_callback, client_vars, query, gemini_key, tavily_key,
                   result, exc, emitted, late_logs, hist_vars, gui_vars, gui_queue, rot_vars,
                   pipe_vars>>

\* lines 45-48: the key at self.index is read and the switch is logged
RotateLog(r, m, at, next) ==
    /\ pc[r] = at
    /\ LogVia(log_callback[m], <<SwitchingMsg(index[m])>>)
    /\ pc' = [pc EXCEPT ![r] = next]
    /\ UNCHANGED <<mgr_vars, client_vars, local_vars, emitted, hist_vars, gui_vars,
                   gui_queue, rot_vars,
                   pipe_vars>>

\* line 153
RotateGemini(r) ==
    \/ RotateLoad(r, "gemini", "L153", "L153s")
    \/ RotateStore(r, "gemini", "L153s", "L153l")
    \/ RotateLog(r, "gemini", "L153l", "L154")

\* line 154
RotateTavily(r) ==
    \/ RotateLoad(r, "tavily", "L154", "L154s")
    \/ RotateStore(r, "tavily", "L154s", "L154l")
    \/ RotateLog(r, "tavily", "L154l", "L155")

\* line 155
HandlerGetClients(r) ==
    \/ GetClientsGemini(r, "L155", "L155t", FALSE)
    \/ GetClientsTavily(r, "L155t", "L155c", FALSE)
    \/ GetClientsConstruct(r, "L155c", "L156", FALSE)

\* line 156
EmitError(r) ==
    /\ pc[r] = "L156"
    /\ Emit(r, "result_ready", ErrorText(exc[r]))
    /\ pc' = [pc EXCEPT ![r] = "done"]
    /\ UNCHANGED <<mgr_vars, client_vars, local_vars, late_logs, hist_vars, gui_vars,
                   rot_vars,
                   pipe_vars>>

\* one statement of the worker of run r
run(r) ==
    \/ SetGeminiCallback(r)
    \/ SetTavilyCallback(r)
    \/ TryGetClients(r)
    \/ Progress(r)
    \/ RunPipeline(r)
    \/ EmitResult(r)
    \/ LogRotating(r)
    \/ RotateGemini(r)
    \/ RotateTavily(r)
    \/ HandlerGetClients(r)
    \/ EmitError(r)

\* --------------------------------------------------------------- AgentApp
\* AgentApp.handle_run, with text in the input box when Run is clicked.  A click
\* while a worker runs starts another worker: self.thread is overwritten, the
\* earlier worker is not stopped and its signals stay connected.
handle_run(text) ==
    /\ LET q == Strip(text) IN
       IF q = <<>>
       THEN /\ output_area' = InvalidQuestionText
            /\ shown' = 0
            /\ UNCHANGED <<thread, pc, query>>
       ELSE /\ thread < MaxRuns
            /\ output_area' = RunningText
            /\ shown' = 0
            /\ thread' = thread + 1
            /\ query' = [query EXCEPT ![thread + 1] = q]
            /\ pc' = [pc EXCEPT ![thread + 1] = "L132"]
    /\ UNCHANGED <<mgr_vars, client_vars, gemini_key, tavily_key, loaded, result, exc,
                   emitted, late_logs, hist_vars, gui_queue, rot_vars,
                   pipe_vars>>

\* AgentApp.display_result
display_result(ev) ==
    /\ output_area' = ev.text
    /\ shown' = ev.run

\* the GUI thread handles the oldest queued result_ready (connection of line 269)
Deliver ==
    /\ gui_queue # <<>>
    /\ display_result(Head(gui_queue))
    /\ gui_queue' = Tail(gui_queue)
    /\ UNCHANGED <<mgr_vars, client_vars, pc, local_vars, emitted, late_logs, hist_vars,
                   thread, rot_vars,
                   pipe_vars>>

\* --------------------------------------------------------- process start
\* lines 25-26 with the first n names set: the values os.getenv returns
Env(m, n) == [i \in 1..MaxKeys |-> IF i <= n THEN EnvKey(m, i) ELSE None]

\* the rotator of SpecRot before that specification builds it
NoRotator == NewManager(<<>>, NoCallback)

\* lines 25-66 and the window before the first click: both managers are built,
\* and line 66 has returned, so neither list is empty
InitApp(gn, tn) ==
    LET gm == NewManager(Env("gemini", gn), NoCallback)
        tm == NewManager(Env("tavily", tn), NoCallback)
    IN
    /\ get_key(gm).raised = "" /\ get_key(tm).raised = ""
    /\ keys = [m \in Managers |-> IF m = "gemini" THEN gm.keys ELSE tm.keys]
    /\ index = [m \in Managers |-> 0]
    /\ log_callback = [m \in Managers |-> NoCallback]
    /\ external_client = get_key(gm).ret
    /\ tavily_client = get_key(tm).ret
    /\ pc = [r \in Runs |-> "idle"]
    /\ query = [r \in Runs |-> <<>>]
    /\ gemini_key = [r \in Runs |-> None]
    /\ tavily_key = [r \in Runs |-> None]
    /\ loaded = [r \in Runs |-> 0]
    /\ result = [r \in Runs |-> <<>>]
    /\ exc = [r \in Runs |-> ""]
    /\ emitted = [r \in Runs |-> <<>>]
    /\ late_logs = [r \in Runs |-> <<>>]
    /\ used = [r \in Runs |-> <<>>]
    /\ rotate_calls = [r \in Runs |-> [m \in Managers |-> 0]]
    /\ thread = 0
    /\ output_area = <<>>
    /\ gui_queue = <<>>
    /\ shown = 0

\* no Runner.run call under observation
NoPipeline == active = "" /\ trace = <<>> /\ pipe_state = "idle"

Init ==
    /\ \E gn \in 0..MaxKeys, tn \in 0..MaxKeys : InitApp(gn, tn)
    /\ rot = NoRotator
    /\ rot_sink = <<>>
    /\ rot_calls = <<>>
    /\ NoPipeline

Next ==
    \/ \E text \in Texts : handle_run(text)
    \/ \E r \in Runs : run(r)
    \/ Deliver

Spec == Init /\ [][Next]_vars

\* ------------------------------------------- one APIKeyManager on its own
\* SpecRot builds one APIKeyManager from an environment list and calls its two
\* methods from a single thread; the sink, when installed, appends to rot_sink.

\* the environment lists tried: every list of at most MaxRotKeys entries, each a
\* credential or unset
RawLists == UNION {[1..n -> {None} \cup {EnvKey("key", i) : i \in 1..MaxRotKeys}] :
                   n \in 0..MaxRotKeys}

\* the sink installed as log_callback in SpecRot
Sink == 1

\* the record of one call: what it raised, returned and logged, and self.index
\* around it
Call(op, c) ==
    [op |-> op, raised |-> c.raised, ret |-> c.ret, before |-> rot.index,
     after |-> c.index, logged |-> Len(c.log), log |-> c.log]

\* one call of rot.get_key()
RotGetKey ==
    /\ Len(rot_calls) < MaxCalls
    /\ LET c == get_key(rot) IN
       /\ rot' = [rot EXCEPT !.index = c.index]
       /\ rot_sink' = rot_sink \o c.log
       /\ rot_calls' = Append(rot_calls, Call("get_key", c))
    /\ UNCHANGED <<mgr_vars, client_vars, pc, local_vars, emitted, late_logs, hist_vars,
                   gui_vars, gui_queue, pipe_vars>>

\* one call of rot.rotate_key()
RotRotateKey ==
    /\ Len(rot_calls) < MaxCalls
    /\ LET c == rotate_key(rot) IN
       /\ rot' = [rot EXCEPT !.index = c.index]
       /\ rot_sink' = rot_sink \o c.log
       /\ rot_calls' = Append(rot_calls, Call("rotate_key", c))
    /\ UNCHANGED <<mgr_vars, client_vars, pc, local_vars, emitted, late_logs, hist_vars,
                   gui_vars, gui_queue, pipe_vars>>

InitRot ==
    /\ InitApp(1, 1)
    /\ \E raw \in RawLists, cb \in {NoCallback, Sink} : rot = NewManager(raw, cb)
    /\ rot_sink = <<>>
    /\ rot_calls = <<>>
    /\ NoPipeline

NextRot == RotGetKey \/ RotRotateKey

SpecRot == InitRot /\ [][NextRot]_vars

\* ------------------------------------------------- the agents of line 148
\* Runner.run(agent, query) lets the model of the agent that holds the
\* conversation ask for one of that agent's tools, for a handoff to one of its
\* handoff targets, or give the final output.  What each agent may ask for is
\* what lines 82-112 give it; which of them its model asks for, and when, is
\* the model's choice, which the instructions string does not bind.
Controller == "SearchAgent"
Summarizer == "SummarizerAgent"

\* tools=[...] of each Agent(...)
Tools(a) ==
    CASE a = "SearchAgent" -> {"planning_tool", "parallel_research_tool"}
      [] a = "ParallelResearchAgent" -> {"search", "extract_context"}
      [] a = "PlanningAgent" -> {}
      [] a = "SummarizerAgent" -> {}

\* a Summarizer that can give the conversation back
HandoffsBack(a) ==
    CASE a = "SearchAgent" -> {"SummarizerAgent"}
      [] a = "SummarizerAgent" -> {"SearchAgent"}
      [] OTHER -> {}

\* handoffs=[...] of each Agent(...)
Handoffs(a) == IF a = "SearchAgent" THEN {"SummarizerAgent"} ELSE {}

\* one request of agent a's model
Request(a, step, what) == [agent |-> a, step |-> step, what |-> what]

Turn == pipe_state = "running" /\ Len(trace) < MaxTurns

\* the model asks for a tool: the tool's agent runs and its output comes back
\* to the asking agent, which keeps the conversation
ModelCallsTool ==
    /\ Turn
    /\ \E t \in Tools(active) : trace' = Append(trace, Request(active, "tool", t))
    /\ UNCHANGED <<active, pipe_state>>
    /\ UNCHANGED <<mgr_vars, client_vars, pc, local_vars, emitted, late_logs, hist_vars,
                   gui_vars, gui_queue, rot_vars>>

\* the model asks for a handoff: the target agent takes the conversation
ModelHandsOff ==
    /\ Turn
    /\ \E a \in Handoffs(active) :
          /\ trace' = Append(trace, Request(active, "handoff", a))
          /\ active' = a
    /\ UNCHANGED pipe_state
    /\ UNCHANGED <<mgr_vars, client_vars, pc, local_vars, emitted, late_logs, hist_vars,
                   gui_vars, gui_queue, rot_vars>>

\* the model answers in text: that is result.final_output
ModelFinal ==
    /\ Turn
    /\ trace' = Append(trace, Request(active, "final", "final_output"))
    /\ pipe_state' = "final"
    /\ UNCHANGED active
    /\ UNCHANGED <<mgr_vars, client_vars, pc, local_vars, emitted, late_logs, hist_vars,
                   gui_vars, gui_queue, rot_vars>>

\* a model or tool call fails: Runner.run raises
ModelRaises ==
    /\ Turn
    /\ pipe_state' = "raised"
    /\ UNCHANGED <<active, trace>>
    /\ UNCHANGED <<mgr_vars, client_vars, pc, local_vars, emitted, late_logs, hist_vars,
                   gui_vars, gui_queue, rot_vars>>

InitPipe ==
    /\ InitApp(1, 1)
    /\ rot = NoRotator
    /\ rot_sink = <<>>
    /\ rot_calls = <<>>
    /\ active = Controller
    /\ trace = <<>>
    /\ pipe_state = "running"

NextPipe == ModelCallsTool \/ ModelHandsOff \/ ModelFinal \/ ModelRaises

SpecPipe == InitPipe /\ [][NextPipe]_vars

\* ------------------------------------------------------------ the claims
\* the texts run r has emitted with result_ready, in order
IsResult(ev) == ev.sig = "result_ready"
Results(r) == [i \in 1..Len(SelectSeq(emitted[r], IsResult)) |->
                 SelectSeq(emitted[r], IsResult)[i].text]

\* run r caught an exception at line 150
Failed(r) == exc[r] # ""
\* the worker of run r has ended: run() returned, or let an exception escape
Finished(r) == pc[r] \in {"done", "escaped"}
\* no worker other than r's is between start and end
Alone(r) == \A q \in Runs \ {r} : pc[q] \in {"idle", "done"}
\* the credential current() of manager m would return
Current(m) == keys[m][index[m] + 1]

\* C1: when a run invokes the pipeline with no other worker active, the handles
\* the pipeline works with are bound to the credentials that are current in the
\* two rotators (so, after an earlier run failed and rotated, to the rotated ones).
C1_PipelineUsesCurrentCredentials ==
    \A r \in Runs :
        (pc[r] \in {"L149", "L152"} /\ used[r] # <<>> /\ Alone(r))
            => used[r] = <<[model |-> Current("gemini"), search |-> Current("tavily")]>>

\* C2: a run that caught a failure and has ended has called rotate_key once on
\* each rotator and has emitted exactly one result, the error text of that failure.
C2_FailureRotatesOnceAndReports ==
    \A r \in Runs :
        (Failed(r) /\ Finished(r))
            => /\ \A m \in Managers : rotate_calls[r][m] = 1
               /\ Results(r) = <<ErrorText(exc[r])>>

\* C3: a worker that has ended has emitted result_ready exactly once.
C3_ExactlyOneResult ==
    \A r \in Runs : Finished(r) => Len(Results(r)) = 1

\* C4: no log line is emitted on a run's log_ready after that run's result_ready.
C4_NoLogAfterResult ==
    \A r \in Runs : late_logs[r] = <<>>

\* what a successful run emits: the four progress lines, then the final output
SuccessSignals(r, out) ==
    <<Event(r, "log_ready", PlanningMsg), Event(r, "log_ready", SearchingMsg),
      Event(r, "log_ready", ExtractingMsg), Event(r, "log_ready", SummarizingMsg),
      Event(r, "result_ready", out)>>

IsPrefix(s, t) == Len(s) <= Len(t) /\ \A i \in 1..Len(s) : s[i] = t[i]

\* C5: as long as a run has caught no failure, what its run() has emitted is an
\* initial part of: planning, searching, extracting, summarizing, then the
\* pipeline's final output; a run that ends without failure has emitted all five.
C5_SuccessOrder ==
    \A r \in Runs :
        ~Failed(r) =>
            /\ IsPrefix(emitted[r], SuccessSignals(r, result[r]))
            /\ pc[r] = "done" => emitted[r] = SuccessSignals(r, result[r])

C5_Witness ==
    \E r \in Runs : pc[r] = "done" /\ ~Failed(r) /\ Len(emitted[r]) = 5

\* C6: on a rotator with N > 0 credentials, N rotate_key calls in a row, from any
\* index, end on the index they started from and return the credential that was
\* current before the first of them.
C6_RotateCycle ==
    LET n == Len(rot.keys) IN
    n > 0 =>
        \A i \in 1..Len(rot_calls) :
            (/\ i + n - 1 <= Len(rot_calls)
             /\ \A j \in i..(i + n - 1) : rot_calls[j].op = "rotate_key")
                => /\ rot_calls[i + n - 1].raised = ""
                   /\ rot_calls[i + n - 1].after = rot_calls[i].before
                   /\ rot_calls[i + n - 1].ret = rot.keys[rot_calls[i].before + 1]

C6_Witness ==
    /\ Len(rot.keys) >= 2
    /\ \E i \in 1..Len(rot_calls) :
        /\ rot_calls[i].before > 0
        /\ i + Len(rot.keys) - 1 <= Len(rot_calls)
        /\ \A j \in i..(i + Len(rot.keys) - 1) : rot_calls[j].op = "rotate_key"

\* C7: on a rotator without credentials every get_key and rotate_key call raises
\* the no-keys error, returns nothing and leaves the index as it was.
C7_EmptyRaisesNoKeys ==
    rot.keys = <<>> =>
        \A i \in 1..Len(rot_calls) :
            /\ rot_calls[i].raised = NoKeysError
            /\ rot_calls[i].ret = None
            /\ rot_calls[i].after = rot_calls[i].before

IsBlank(text) == \A i \in 1..Len(text) : text[i] \in Whitespace

\* C8: a click with an empty or blank text shows the invalid-question text and
\* starts no worker, emits nothing and leaves both rotators as they were.
C8_BlankQueryRejected ==
    [][\A text \in Texts :
          (IsBlank(text) /\ handle_run(text))
              => /\ output_area' = InvalidQuestionText
                 /\ UNCHANGED <<thread, pc, query, emitted, late_logs, gui_queue,
                                mgr_vars, hist_vars>>]_vars

C8_Witness ==
    /\ output_area = InvalidQuestionText
    /\ thread = 0
    /\ \A r \in Runs : pc[r] = "idle" /\ emitted[r] = <<>>
    /\ \A m \in Managers : index[m] = 0

\* C9: once the output area shows the outcome of the latest run, no outcome of
\* an earlier run takes its place.
C9_LatestResultStays ==
    [][(shown # 0 /\ shown = thread) => shown' \in {0, thread'}]_vars

\* C10: when every started worker has ended, each rotator's index is the number
\* of runs that rotated it, modulo its number of credentials (it starts at 0).
C10_NoLostRotation ==
    (\A r \in Runs : pc[r] \in {"idle", "done"}) =>
        \A m \in Managers :
            index[m] = Cardinality({r \in Runs : rotate_calls[r][m] > 0}) % Len(keys[m])

\* run r takes a step of get_clients (line 134 or line 155)
InGetClients(r) ==
    /\ pc[r] \in {"L134", "L134t", "L134c", "L155", "L155t", "L155c"}
    /\ pc'[r] # pc[r]

\* C11: no step of get_clients changes a rotator's index or credential list, and
\* the credential it reads from each rotator is the one current at that moment
\* (so builds with no rotation between them bind to the same pair).
C11_GetClientsReadOnly ==
    [][\A r \in Runs :
          InGetClients(r) =>
              /\ index' = index /\ keys' = keys
              /\ pc'[r] \in {"L134t", "L155t"} => gemini_key'[r] = Current("gemini")
              /\ pc'[r] \in {"L134c", "L155c"} => tavily_key'[r] = Current("tavily")]_vars

C11_Witness ==
    \E r \in Runs :
        /\ pc[r] = "L155c"
        /\ Len(keys["gemini"]) = 2
        /\ gemini_key[r] = keys["gemini"][2]
        /\ tavily_key[r] = Current("tavily")

\* C12: in every reachable state each rotator with a non-empty credential list
\* has 0 <= index < len(keys), whatever runs succeeded, failed or overlapped.
C12_IndexInRange ==
    \A m \in Managers :
        Len(keys[m]) > 0 => (index[m] >= 0 /\ index[m] < Len(keys[m]))

C12_Witness ==
    /\ \A r \in Runs : pc[r] = "done" /\ Failed(r)
    /\ index["gemini"] = 1 /\ Len(keys["gemini"]) = 2
    /\ index["tavily"] = 0 /\ Len(keys["tavily"]) = 2

\* run r's handler has finished rotate_key on manager m
Rotated(r, m) ==
    /\ rotate_calls[r][m] = 1
    /\ pc[r] \notin (IF m = "gemini" THEN {"L153s", "L153l"} ELSE {"L154s", "L154l"})

\* C13: on the failure path of a run the rotation is announced before the model
\* rotator is rotated, the model rotator before the search rotator, both before
\* the clients are rebuilt, and the Failure outcome comes last; so once a
\* Failure outcome is on display, the failing run has finished both rotations.
C13_FailureOrder ==
    \A r \in Runs :
        Failed(r) =>
            /\ rotate_calls[r]["gemini"] > 0 =>
                  emitted[r] # <<>> /\ emitted[r][Len(emitted[r])].text \in {RotatingMsg, ErrorText(exc[r])}
            /\ rotate_calls[r]["tavily"] > 0 => Rotated(r, "gemini")
            /\ pc[r] \in {"L155", "L155t", "L155c", "L156"} =>
                  Rotated(r, "gemini") /\ Rotated(r, "tavily") /\ ~HasResult(r)
            /\ HasResult(r) =>
                  /\ pc[r] = "done"
                  /\ Rotated(r, "gemini") /\ Rotated(r, "tavily")
                  /\ Len(emitted[r]) >= 2
                  /\ emitted[r][Len(emitted[r]) - 1] = Event(r, "log_ready", RotatingMsg)
                  /\ emitted[r][Len(emitted[r])] = Event(r, "result_ready", ErrorText(exc[r]))
            /\ shown = r => HasResult(r)

C13_Witness ==
    /\ shown = 1 /\ Failed(1) /\ thread = 1
    /\ output_area = ErrorText(exc[1])
    /\ index["gemini"] = 1 /\ index["tavily"] = 1

\* C14: a run calls the pipeline at most once, and a run whose pipeline call
\* raised never has a Success outcome and ends with the Failure outcome that
\* carries that error.
C14_NoRetry ==
    \A r \in Runs :
        /\ Len(used[r]) <= 1
        /\ (Failed(r) /\ exc[r] \in PipelineErrors) =>
              /\ Len(used[r]) = 1
              /\ result[r] = <<>>
              /\ \A i \in 1..Len(Results(r)) : Results(r)[i] \notin Outputs
              /\ Finished(r) => Results(r) = <<ErrorText(exc[r])>>

\* the positions of trace where the Controller asks for tool t
Asked(t) == {i \in 1..Len(trace) : trace[i].step = "tool" /\ trace[i].what = t}

\* C15: within one pipeline call Research is never asked for before Planning has
\* been asked for and has returned, Planning is not asked for again after
\* Research, and the Summarizer gives the final output only after Research.
C15_StageOrder ==
    /\ \A i \in Asked("parallel_research_tool") :
          \E j \in Asked("planning_tool") : j < i
    /\ \A i \in Asked("planning_tool") :
          \A j \in Asked("parallel_research_tool") : i < j
    /\ (pipe_state = "final" /\ active = Summarizer) =>
          Asked("parallel_research_tool") # {}

\* the position of the handoff to the Summarizer in trace, 0 if none
HandedOffAt ==
    IF \E i \in 1..Len(trace) : trace[i].step = "handoff"
    THEN CHOOSE i \in 1..Len(trace) :
            /\ trace[i].step = "handoff"
            /\ \A j \in 1..(i - 1) : trace[j].step # "handoff"
    ELSE 0

\* C16: once the Controller has handed off to the Summarizer, every later
\* request is the Summarizer's, none of them is a tool call or a handoff, and
\* the final output, if there is one, is the Summarizer's.
C16_HandoffOneWay ==
    HandedOffAt # 0 =>
        /\ trace[HandedOffAt].agent = Controller
        /\ trace[HandedOffAt].what = Summarizer
        /\ active = Summarizer
        /\ \A i \in (HandedOffAt + 1)..Len(trace) :
              trace[i].agent = Summarizer /\ trace[i].step = "final"
        /\ pipe_state = "final" => trace[Len(trace)] = Request(Summarizer, "final", "final_output")

C16_Witness ==
    /\ pipe_state = "final"
    /\ Len(trace) = 4
    /\ trace[1].what = "planning_tool"
    /\ trace[2].what = "parallel_research_tool"
    /\ trace[3].step = "handoff"
    /\ trace[4].agent = Summarizer

\* what the first k calls on rot logged, in order
RECURSIVE LoggedBy(_)
LoggedBy(k) == IF k = 0 THEN <<>> ELSE LoggedBy(k - 1) \o rot_calls[k].log

\* the notice of a rotation to index i, as the sink should receive it
Notice(i) == <<"Switching to API Key No. ", NumStr(i + 1)>>

\* C17: on a rotator with credentials every rotate_key call succeeds, moves the
\* index to (index + 1) mod N and, when a sink is installed, logs exactly one
\* line naming the new index counted from 1; without a sink it logs nothing.
\* The sink holds what the calls logged, in call order; with three credentials
\* three rotations in a row from index 0 go 0, 1, 2, 0 with one line each.
C17_RotateLogs ==
    LET n == Len(rot.keys) IN
    /\ rot_sink = LoggedBy(Len(rot_calls))
    /\ n > 0 =>
          \A i \in 1..Len(rot_calls) :
              rot_calls[i].op = "rotate_key" =>
                  /\ rot_calls[i].raised = ""
                  /\ rot_calls[i].after = (rot_calls[i].before + 1) % n
                  /\ rot_calls[i].log = IF rot.log_callback # NoCallback
                                        THEN <<Notice(rot_calls[i].after)>>
                                        ELSE <<>>
    /\ (/\ n = 3 /\ rot.log_callback # NoCallback /\ Len(rot_calls) >= 3
        /\ \A i \in 1..3 : rot_calls[i].op = "rotate_key")
          => /\ <<rot_calls[1].before, rot_calls[1].after, rot_calls[2].after,
                  rot_calls[3].after>> = <<0, 1, 2, 0>>
             /\ SubSeq(rot_sink, 1, 3) = <<Notice(1), Notice(2), Notice(0)>>

C17_Witness ==
    /\ Len(rot.keys) = 3 /\ rot.log_callback = Sink
    /\ Len(rot_calls) = 3
    /\ \A i \in 1..3 : rot_calls[i].op = "rotate_key"
    /\ rot.index = 0
    /\ Len(rot_sink) = 3

\* C18: a run that has caught no failure has called rotate_key on neither
\* rotator and none of its steps changes an index or a credential list; an
\* index changes only by the store of a rotate_key that a failing run is making.
C18_SuccessLeavesRotators ==
    [][/\ \A r \in Runs :
            exc'[r] = "" =>
                /\ \A m \in Managers : rotate_calls'[r][m] = 0
                /\ pc'[r] # pc[r] => (index' = index /\ keys' = keys)
       /\ index' # index =>
            \E q \in Runs :
                Failed(q) /\ pc[q] \in {"L153s", "L154s"} /\ pc'[q] # pc[q]]_vars

C18_Witness ==
    \E r \in Runs, q \in Runs :
        /\ pc[r] = "done" /\ ~Failed(r) /\ HasResult(r)
        /\ \A m \in Managers : rotate_calls[r][m] = 0
        /\ Failed(q) /\ pc[q] = "done"
        /\ index["gemini"] = 1 /\ index["tavily"] = 1

====
